---- MODULE Spec2Model ----
(***************************************************************************)
(* Model of nested_newtypes (src/src/main.rs): three newtype wrappers      *)
(* (Usage, ChangedWrap, LabelWrap) nested around a payload in any order,   *)
(* the Deref chain that exposes the wrappers' trait methods, and the       *)
(* Peano-indexed traits Construct<T, I> and With<T, I>.                    *)
(*                                                                         *)
(* A value is a record [layers, payload]: layers is the sequence of the    *)
(* wrapper structs from the outermost (index 1) to the innermost, payload  *)
(* is the wrapped primitive.  A wrapper's `data` field is the value made   *)
(* of the remaining layers.  A type is the sequence of the layers' types.  *)
(* A Peano number Z, S<Z>, S<S<Z>> ... is the natural number 0, 1, 2 ...   *)
(***************************************************************************)
EXTENDS Naturals, Integers, Sequences, FiniteSets, TLC

VARIABLES ty, v, stack, pc, via, lastCall, prevCall, lastChanged, lastLabel

vars == <<ty, v, stack, pc, via, lastCall, prevCall, lastChanged, lastLabel>>

\* Deepest nesting of wrappers explored.
MaxDepth == 3

\* Payload values (1234 in test_the_first, 1 in test_the_second).
Payloads == {1234, 1}

\* Type parameters U of Usage<U, T>.
UsageTags == {"UsageTag", "OtherTag"}

\* Placeholders for the fields a wrapper struct does not have.
NoUsage == "-"
NoFlag == FALSE
NoCow == [variant |-> "-", text |-> ""]

\* The wrapper types: Usage<U, _>, ChangedWrap<_>, LabelWrap<_>.
UsageType(U) == [kind |-> "Usage", usage |-> U]
ChangedWrapType == [kind |-> "ChangedWrap", usage |-> NoUsage]
LabelWrapType == [kind |-> "LabelWrap", usage |-> NoUsage]
LayerTypes == {UsageType(U) : U \in UsageTags} \cup {ChangedWrapType, LabelWrapType}

\* Every stack type of depth 1..MaxDepth.
RECURSIVE TypesOfLen(_)
TypesOfLen(n) ==
    IF n = 0 THEN {<<>>}
    ELSE {<<k>> \o t : k \in LayerTypes, t \in TypesOfLen(n - 1)}
Types == UNION {TypesOfLen(n) : n \in 1..MaxDepth}

\* Peano indices tried by trait resolution.
Indices == 0..(MaxDepth + 1)

\* Arguments L of Label<L>: a &'static str or a String.
LabelInputs == {[form |-> "str", text |-> "one"],
                [form |-> "String", text |-> "one"],
                [form |-> "str", text |-> "two"]}
NoInput == [form |-> "-", text |-> ""]

\* The capability values Changed(b) and Label(l) handed to with.
Changed(b) == [cap |-> "Changed", flag |-> b, label |-> NoInput]
Label(l) == [cap |-> "Label", flag |-> NoFlag, label |-> l]
NoCall == [cap |-> "none", flag |-> NoFlag, label |-> NoInput]
Caps == {"Changed", "Label"}

\* Into<Cow<'static, str>>: a &'static str is borrowed, a String is owned.
IntoCow(l) ==
    IF l.form = "String" THEN [variant |-> "Owned", text |-> l.text]
    ELSE [variant |-> "Borrowed", text |-> l.text]

\* Deref<Target = str> for Cow.
CowAsStr(c) == c.text

\* std::any::TypeId::of::<U>(): one identifier per type.
TypeIdOf(U) == CASE U = "UsageTag" -> 1 [] U = "OtherTag" -> 2 [] OTHER -> 0

----------------------------------------------------------------------------
\* Values

\* A bare payload, wrapped by nothing.
Bare(x) == [layers |-> <<>>, payload |-> x]

\* The struct literal W { data, ..fields }.
Wrap(layer, data) == [layers |-> <<layer>> \o data.layers, payload |-> data.payload]

\* The field self.data.
Data(self) == [layers |-> Tail(self.layers), payload |-> self.payload]

\* The static type of a value.
TypeOf(self) ==
    [i \in 1..Len(self.layers) |->
        [kind |-> self.layers[i].kind, usage |-> self.layers[i].usage]]

Usage_new(U, data) ==
    Wrap([kind |-> "Usage", usage |-> U, changed |-> NoFlag, label |-> NoCow], data)

\* A ChangedWrap::new that starts with the flag set.
ChangedWrap_new_set(data) ==
    Wrap([kind |-> "ChangedWrap", usage |-> NoUsage, changed |-> TRUE, label |-> NoCow], data)

ChangedWrap_new(data) ==
    Wrap([kind |-> "ChangedWrap", usage |-> NoUsage, changed |-> FALSE, label |-> NoCow], data)

LabelWrap_new(data) ==
    Wrap([kind |-> "LabelWrap", usage |-> NoUsage, changed |-> NoFlag,
          label |-> IntoCow([form |-> "str", text |-> ""])], data)

\* W::new for the wrapper type k.
New(k, data) ==
    CASE k.kind = "Usage" -> Usage_new(k.usage, data)
      [] k.kind = "ChangedWrap" -> ChangedWrap_new(data)
      [] k.kind = "LabelWrap" -> LabelWrap_new(data)

\* Deref::deref of each wrapper: one level, to the inner value.
Usage_deref(self) == Data(self)
ChangedWrap_deref(self) == Data(self)
LabelWrap_deref(self) == Data(self)

Deref(self) ==
    CASE Head(self.layers).kind = "Usage" -> Usage_deref(self)
      [] Head(self.layers).kind = "ChangedWrap" -> ChangedWrap_deref(self)
      [] Head(self.layers).kind = "LabelWrap" -> LabelWrap_deref(self)

\* Dereferencing one level at a time through all the layers.
RECURSIVE DerefAll(_)
DerefAll(self) == IF self.layers = <<>> THEN self.payload ELSE DerefAll(Deref(self))

----------------------------------------------------------------------------
\* Capability trait hosts, reached through the Deref chain

\* The wrapper type that implements the capability's trait.
Owner(cap) == IF cap = "Changed" THEN "ChangedWrap" ELSE "LabelWrap"

ChangedWrap_get_changed(self) == Head(self.layers).changed

\* A set_changed that flips the flag when asked to set it.
set_changed_toggle(self, changed) ==
    [self EXCEPT !.layers[1].changed = IF changed THEN ~@ ELSE @]

set_changed(self, changed) == [self EXCEPT !.layers[1].changed = changed]

LabelWrap_get_label(self) == CowAsStr(Head(self.layers).label)

\* label.into() on a Cow is the Cow itself.
set_label(self, label) == [self EXCEPT !.layers[1].label = label]

Usage_type_id(self) == TypeIdOf(Head(self.layers).usage)

\* Method lookup by auto-deref: the receiver type is tried first, then each
\* Deref target in turn; the first type that has the method is picked.
\* The result is the number of derefs taken, -1 when no type has it.
RECURSIVE MethodDepth(_, _)
MethodDepth(t, host) ==
    IF t = <<>> THEN -1
    ELSE IF Head(t).kind = host THEN 0
    ELSE LET d == MethodDepth(Tail(t), host) IN IF d = -1 THEN -1 ELSE d + 1

MethodResolves(t, host) == MethodDepth(t, host) # -1

\* A lookup that keeps dereferencing and picks the innermost ChangedWrap.
RECURSIVE get_changed_innermost(_)
get_changed_innermost(self) ==
    IF MethodResolves(TypeOf(Data(self)), "ChangedWrap") THEN get_changed_innermost(Deref(self))
    ELSE ChangedWrap_get_changed(self)

RECURSIVE get_changed(_)
get_changed(self) ==
    IF Head(self.layers).kind = "ChangedWrap" THEN ChangedWrap_get_changed(self)
    ELSE get_changed(Deref(self))

RECURSIVE get_label(_)
get_label(self) ==
    IF Head(self.layers).kind = "LabelWrap" THEN LabelWrap_get_label(self)
    ELSE get_label(Deref(self))

RECURSIVE type_id(_)
type_id(self) ==
    IF Head(self.layers).kind = "Usage" THEN Usage_type_id(self)
    ELSE type_id(Deref(self))

----------------------------------------------------------------------------
\* Construct<T, I>

\* Whether "Self: Construct<T, I>" has an impl: Z wraps T directly, S<I>
\* needs the inner type N to be Construct<T, I>.
RECURSIVE ConstructResolves(_, _, _)
\* A Z impl that accepts any payload type, not only the wrapped one.
ConstructResolves_anyT(Self, T, I) ==
    /\ Self # <<>>
    /\ IF I = 0 THEN TRUE
       ELSE ConstructResolves(Tail(Self), T, I - 1)

ConstructResolves(Self, T, I) ==
    /\ Self # <<>>
    /\ IF I = 0 THEN Tail(Self) = T
       ELSE ConstructResolves(Tail(Self), T, I - 1)

RECURSIVE Construct(_, _, _)
Usage_construct_Z(Self, t) == Usage_new(Head(Self).usage, t)

Usage_construct_S(Self, t, I) == Usage_new(Head(Self).usage, Construct(Tail(Self), t, I))

LabelWrap_construct_Z(Self, t) == LabelWrap_new(t)

LabelWrap_construct_S(Self, t, I) == LabelWrap_new(Construct(Tail(Self), t, I))

ChangedWrap_construct_Z(Self, t) == ChangedWrap_new(t)

\* An S<I> impl that marks the wrapper it builds as changed.
ChangedWrap_construct_S_set(Self, t, I) ==
    set_changed(ChangedWrap_new(Construct(Tail(Self), t, I)), TRUE)

ChangedWrap_construct_S(Self, t, I) == ChangedWrap_new(Construct(Tail(Self), t, I))

\* Impl selection for Self: Construct<T, I>.
Construct(Self, t, I) ==
    LET k == Head(Self).kind IN
    IF I = 0
    THEN CASE k = "Usage" -> Usage_construct_Z(Self, t)
           [] k = "LabelWrap" -> LabelWrap_construct_Z(Self, t)
           [] k = "ChangedWrap" -> ChangedWrap_construct_Z(Self, t)
    ELSE CASE k = "Usage" -> Usage_construct_S(Self, t, I - 1)
           [] k = "LabelWrap" -> LabelWrap_construct_S(Self, t, I - 1)
           [] k = "ChangedWrap" -> ChangedWrap_construct_S(Self, t, I - 1)

----------------------------------------------------------------------------
\* With<T, I>

\* Whether "Self: With<T, I>" has an impl for the capability cap.
RECURSIVE WithResolves(_, _, _)
\* S<I> impls without the bound "N: With<T, I>".
WithResolves_unbounded(Self, cap, I) ==
    /\ Self # <<>>
    /\ IF I = 0 THEN Head(Self).kind = Owner(cap)
       ELSE TRUE

WithResolves(Self, cap, I) ==
    /\ Self # <<>>
    /\ IF I = 0 THEN Head(Self).kind = Owner(cap)
       ELSE WithResolves(Tail(Self), cap, I - 1)

\* The indices I for which Self: With<T, I> holds.
WithIndices(Self, cap) == {I \in Indices : WithResolves(Self, cap, I)}

\* A method call x.with(t) leaves I to inference: it compiles when exactly
\* one index satisfies the bound.
WithInferred(Self, cap) == Cardinality(WithIndices(Self, cap)) = 1

RECURSIVE With(_, _, _)
ChangedWrap_with_Z(self, t) == set_changed(self, t.flag)

\* An S<I> impl that rewraps the updated inner value with ChangedWrap::new.
ChangedWrap_with_S_new(self, t, I) == ChangedWrap_new(With(Data(self), t, I))

ChangedWrap_with_S(self, t, I) == Wrap(Head(self.layers), With(Data(self), t, I))

\* A Z impl that keeps a label once one is set.
LabelWrap_with_Z_once(self, t) ==
    IF LabelWrap_get_label(self) = "" THEN set_label(self, IntoCow(t.label)) ELSE self

LabelWrap_with_Z(self, t) == set_label(self, IntoCow(t.label))

\* An S<I> impl that rewraps the updated inner value with LabelWrap::new.
LabelWrap_with_S_new(self, t, I) == LabelWrap_new(With(Data(self), t, I))

LabelWrap_with_S(self, t, I) == Wrap(Head(self.layers), With(Data(self), t, I))

\* An S<I> impl that returns the updated inner value without its wrapper.
Usage_with_S_unwrapped(self, t, I) == With(Data(self), t, I)

Usage_with_S(self, t, I) == Wrap(Head(self.layers), With(Data(self), t, I))

With(self, t, I) ==
    LET k == Head(self.layers).kind IN
    IF I = 0
    THEN IF k = "ChangedWrap" THEN ChangedWrap_with_Z(self, t) ELSE LabelWrap_with_Z(self, t)
    ELSE CASE k = "ChangedWrap" -> ChangedWrap_with_S(self, t, I - 1)
           [] k = "LabelWrap" -> LabelWrap_with_S(self, t, I - 1)
           [] k = "Usage" -> Usage_with_S(self, t, I - 1)

\* x.with(t) with the inferred index.
with(self, t) == With(self, t, CHOOSE I \in WithIndices(TypeOf(self), t.cap) : TRUE)

----------------------------------------------------------------------------
\* The program: a stack of type ty around payload v is built layer by layer
\* with new (test_the_first) or with construct (test_the_second), then
\* configured with with calls.

Init ==
    /\ ty \in Types
    /\ v \in Payloads
    /\ stack = Bare(v)
    /\ pc = "start"
    /\ via = "none"
    /\ lastCall = NoCall
    /\ prevCall = NoCall
    /\ lastChanged = FALSE
    /\ lastLabel = ""

Built(s) == IF Len(s.layers) = Len(ty) THEN "ready" ELSE "nesting"

\* W::new(stack): the next wrapper of ty, from the innermost outward.
NewStep ==
    /\ pc \in {"start", "nesting"}
    /\ Len(stack.layers) < Len(ty)
    /\ stack' = New(ty[Len(ty) - Len(stack.layers)], stack)
    /\ pc' = Built(stack')
    /\ via' = IF via = "none" THEN "new" ELSE via
    /\ UNCHANGED <<ty, v, lastCall, prevCall, lastChanged, lastLabel>>

\* Ty::construct(stack): the wrappers of ty that are still missing, at once.
ConstructCall ==
    /\ pc \in {"start", "nesting"}
    /\ \E I \in Indices :
         /\ ConstructResolves(ty, TypeOf(stack), I)
         /\ stack' = Construct(ty, stack, I)
    /\ pc' = "ready"
    /\ via' = "construct"
    /\ UNCHANGED <<ty, v, lastCall, prevCall, lastChanged, lastLabel>>

\* stack.with(Changed(b))
WithChanged(b) ==
    /\ pc = "ready"
    /\ WithInferred(ty, "Changed")
    /\ stack' = with(stack, Changed(b))
    /\ prevCall' = lastCall
    /\ lastCall' = Changed(b)
    /\ lastChanged' = b
    /\ UNCHANGED <<ty, v, pc, via, lastLabel>>

\* stack.with(Label(l))
WithLabel(l) ==
    /\ pc = "ready"
    /\ WithInferred(ty, "Label")
    /\ stack' = with(stack, Label(l))
    /\ prevCall' = lastCall
    /\ lastCall' = Label(l)
    /\ lastLabel' = l.text
    /\ UNCHANGED <<ty, v, pc, via, lastChanged>>

\* With::<T, I>::with(stack, t): the call with the index written out.
WithIndexed(t, I) ==
    /\ pc = "ready"
    /\ WithResolves(ty, t.cap, I)
    /\ stack' = With(stack, t, I)
    /\ prevCall' = lastCall
    /\ lastCall' = t
    /\ lastChanged' = IF t.cap = "Changed" THEN t.flag ELSE lastChanged
    /\ lastLabel' = IF t.cap = "Label" THEN t.label.text ELSE lastLabel
    /\ UNCHANGED <<ty, v, pc, via>>

Args == {Changed(b) : b \in BOOLEAN} \cup {Label(l) : l \in LabelInputs}

Next ==
    \/ NewStep
    \/ ConstructCall
    \/ \E b \in BOOLEAN : WithChanged(b)
    \/ \E l \in LabelInputs : WithLabel(l)
    \/ \E t \in Args, I \in Indices : WithIndexed(t, I)

Spec == Init /\ [][Next]_vars

----------------------------------------------------------------------------
\* Properties

\* The six nesting orders of {Usage, ChangedWrap, LabelWrap}.
SixOrders(t) ==
    /\ Len(t) = 3
    /\ {t[i].kind : i \in 1..3} = {"Usage", "ChangedWrap", "LabelWrap"}

\* The positions of the layers of type t that are wrappers of the given kind.
Owners(t, kind) == {i \in 1..Len(t) : t[i].kind = kind}

ExactlyOne(t, kind) == Cardinality(Owners(t, kind)) = 1

Duplicate(t, kind) == Cardinality(Owners(t, kind)) >= 2

Outermost(t, kind) == CHOOSE i \in Owners(t, kind) : \A j \in Owners(t, kind) : i <= j

\* The last n layers of type t.
Suffix(t, n) == SubSeq(t, Len(t) - n + 1, Len(t))

\* What a caller can read from a stack: flag, label, payload.
Observe(s) ==
    [changed |-> IF MethodResolves(TypeOf(s), "ChangedWrap") THEN get_changed(s) ELSE NoFlag,
     label |-> IF MethodResolves(TypeOf(s), "LabelWrap") THEN get_label(s) ELSE "",
     payload |-> DerefAll(s)]

\* C1: in each of the six nesting orders, after with(Changed(b)) and then
\* with(Label(l)), get_changed() is b and get_label() is l, whatever the order.
C1_OrderIndependence ==
    (pc = "ready" /\ SixOrders(ty) /\ prevCall.cap = "Changed" /\ lastCall.cap = "Label")
        => /\ get_changed(stack) = prevCall.flag
           /\ get_label(stack) = lastCall.label.text

C1_Witness ==
    /\ pc = "ready"
    /\ SixOrders(ty)
    /\ ty[1].kind = "LabelWrap"
    /\ ty[3].kind = "ChangedWrap"
    /\ prevCall = Changed(TRUE)
    /\ lastCall.cap = "Label"
    /\ get_changed(stack) = TRUE
    /\ get_label(stack) = "two"

WithLabelStep ==
    \/ \E l \in LabelInputs : WithLabel(l)
    \/ \E l \in LabelInputs, I \in Indices : WithIndexed(Label(l), I)

WithChangedStep ==
    \/ \E b \in BOOLEAN : WithChanged(b)
    \/ \E b \in BOOLEAN, I \in Indices : WithIndexed(Changed(b), I)

\* C2: a with(Label(l)) step leaves get_changed() and the Usage type id as
\* they were, and a with(Changed(b)) step leaves get_label() and the Usage
\* type id as they were, in every stack where these are readable (the six
\* orders among them).
C2_NonInterference ==
    [][ /\ WithLabelStep =>
             /\ MethodResolves(ty, "ChangedWrap") => get_changed(stack') = get_changed(stack)
             /\ MethodResolves(ty, "Usage") => type_id(stack') = type_id(stack)
        /\ WithChangedStep =>
             /\ MethodResolves(ty, "LabelWrap") => get_label(stack') = get_label(stack)
             /\ MethodResolves(ty, "Usage") => type_id(stack') = type_id(stack)
      ]_vars

C2_Witness ==
    /\ pc = "ready"
    /\ SixOrders(ty)
    /\ ty[1].kind = "LabelWrap"
    /\ prevCall = Label([form |-> "String", text |-> "one"])
    /\ lastCall = Changed(TRUE)
    /\ get_label(stack) = "one"
    /\ get_changed(stack) = TRUE
    /\ type_id(stack) = TypeIdOf("UsageTag")

\* C3: a stack no with call has touched, however many of its layers were put
\* on by new and however many by construct, is the stack construct builds from
\* the bare payload with the index that matches its depth.
C3_ConstructEquivalence ==
    (lastCall = NoCall /\ stack.layers # <<>>)
        => LET n == Len(stack.layers) IN
           /\ ConstructResolves(Suffix(ty, n), <<>>, n - 1)
           /\ stack = Construct(Suffix(ty, n), Bare(v), n - 1)

C3_Witness ==
    /\ pc = "ready"
    /\ via = "construct"
    /\ lastCall = NoCall
    /\ SixOrders(ty)
    /\ ty[1].kind = "ChangedWrap"
    /\ stack = ChangedWrap_new(New(ty[2], New(ty[3], Bare(v))))

\* C4: a stack built by new or construct and not yet touched by with reports
\* get_changed() = false and get_label() = "".
C4_DefaultState ==
    (pc = "ready" /\ lastCall = NoCall)
        => /\ MethodResolves(ty, "ChangedWrap") => get_changed(stack) = FALSE
           /\ MethodResolves(ty, "LabelWrap") => get_label(stack) = ""

C4_Witness ==
    /\ pc = "ready"
    /\ via = "new"
    /\ lastCall = NoCall
    /\ SixOrders(ty)
    /\ get_changed(stack) = FALSE
    /\ get_label(stack) = ""

\* C5: a with(Changed(true)) call that follows a with(Changed(true)) call
\* leaves flag, label and payload as the first call left them.
C5_Idempotence ==
    [][ (lastCall = Changed(TRUE) /\ WithChanged(TRUE)) => Observe(stack') = Observe(stack) ]_vars

C5_Witness ==
    /\ pc = "ready"
    /\ WithInferred(ty, "Changed")
    /\ prevCall = Changed(TRUE)
    /\ lastCall = Changed(TRUE)
    /\ get_changed(stack) = TRUE

C8_IndexUnique ==
    /\ \A cap \in Caps :
          ExactlyOne(ty, Owner(cap))
              => WithIndices(ty, cap) = {Outermost(ty, Owner(cap)) - 1}
    /\ \A n \in 0..(Len(ty) - 1) :
          {I \in Indices : ConstructResolves(ty, Suffix(ty, n), I)} = {Len(ty) - n - 1}

C8_Witness ==
    /\ pc = "ready"
    /\ via = "construct"
    /\ SixOrders(ty)
    /\ ty[3].kind = "LabelWrap"
    /\ WithIndices(ty, "Label") = {2}
    /\ lastCall.cap = "Label"
    /\ get_label(stack) = "one"

\* C9: wherever with(Changed(b)) resolves, get_changed() is the b of the most
\* recent such call (false before the first); wherever with(Label(l))
\* resolves, get_label() is the l of the most recent such call ("" before the
\* first); and where both resolve the two calls commute.
C9_LastWriteWins ==
    pc = "ready" =>
        /\ WithInferred(ty, "Changed") => get_changed(stack) = lastChanged
        /\ WithInferred(ty, "Label") => get_label(stack) = lastLabel
        /\ (WithInferred(ty, "Changed") /\ WithInferred(ty, "Label"))
              => \A b \in BOOLEAN, l \in LabelInputs :
                    with(with(stack, Changed(b)), Label(l))
                        = with(with(stack, Label(l)), Changed(b))

C9_Witness ==
    /\ pc = "ready"
    /\ SixOrders(ty)
    /\ prevCall = Label([form |-> "str", text |-> "two"])
    /\ lastCall = Changed(FALSE)
    /\ stack.layers[Outermost(ty, "LabelWrap")].label = IntoCow([form |-> "str", text |-> "two"])
    /\ get_label(stack) = "two"
    /\ get_changed(stack) = FALSE

\* C10: once built, and after any with calls, the stack has the nesting
\* order and depth of its type, and dereferencing through all its layers
\* yields the payload it was built from.
C10_PayloadShapePreserved ==
    pc = "ready" =>
        /\ TypeOf(stack) = ty
        /\ Len(stack.layers) = Len(ty)
        /\ DerefAll(stack) = v

C10_Witness ==
    /\ pc = "ready"
    /\ SixOrders(ty)
    /\ ty[1].kind = "Usage"
    /\ prevCall.cap = "Label"
    /\ lastCall.cap = "Changed"
    /\ DerefAll(stack) = 1234

====
